---- MODULE Spec2Model ----
(***************************************************************************)
(* Column lineage extraction of view_parser.py.                            *)
(*                                                                         *)
(* Encoding of Python values:                                              *)
(*   - an identifier is a TLA+ string;                                     *)
(*   - a dotted text such as "db.tbl" is the sequence of its segments      *)
(*     <<"db", "tbl">>, so that '.'.join(parts) is the concatenation of    *)
(*     the segment sequences and text.split('.')[-1] is the last segment;  *)
(*   - the SQL rendering of an expression (expr.sql()) is its sequence of  *)
(*     tokens, <<"s", "id">> for s.id;                                     *)
(*   - a dict is the sequence of its <<key, value>> items in insertion     *)
(*     order; a DataFrame is the sequence of its rows;                     *)
(*   - an AST node of sqlglot is a record with a field kind naming its     *)
(*     class and one field per argument; None is the node NoneNode.        *)
(***************************************************************************)
EXTENDS Naturals, Sequences, FiniteSets, TLC

VARIABLES sql_text, pc, parsed, selects, select, tables, default_table,
          all_lineage, df, stdout

vars == <<sql_text, pc, parsed, selects, select, tables, default_table,
          all_lineage, df, stdout>>

(***************************************************************************)
(* Bounds of the checked inputs.                                           *)
(***************************************************************************)
\* dotted parts of a table name
MaxParts == 3
\* JOIN clauses of one SELECT
MaxJoins == 1
\* items of a select list
MaxExprs == 2
\* branches of a UNION
MaxBranches == 2

NoneNode == [kind |-> "None"]

Last(s) == s[Len(s)]
Front(s) == SubSeq(s, 1, Len(s) - 1)

RECURSIVE Flatten(_)
\* '.'.join(parts) on segment sequences
Flatten(ss) == IF ss = <<>> THEN <<>> ELSE Head(ss) \o Flatten(Tail(ss))

RECURSIVE SeqsUpTo(_, _)
\* the sequences over S of length at most n
SeqsUpTo(S, n) ==
  IF n = 0 THEN {<<>>}
  ELSE LET shorter == SeqsUpTo(S, n - 1)
       IN shorter \cup {Append(s, x) : s \in {t \in shorter : Len(t) = n - 1}, x \in S}

Range(s) == {s[i] : i \in 1..Len(s)}

(***************************************************************************)
(* The SQL texts given to extract_column_lineage, as their token           *)
(* structure.                                                              *)
(***************************************************************************)
\* a table name of n dotted parts ending in db.t: t, a.t, c.a.t, c.c.a.t
DeepName(n) == [i \in 1..n |-> IF i = n THEN "t" ELSE IF i = n - 1 THEN "a" ELSE "c"]

TableNames == {<<"b", "t">>} \cup {DeepName(n) : n \in 1..MaxParts}

TableRef(parts, alias) == [parts |-> parts, alias |-> alias]

\* t s, u r: aliased; the others as written
FromRefs ==
  {TableRef(n, "") : n \in TableNames} \cup {TableRef(<<"t">>, "s"), TableRef(<<"u">>, "r")}

JoinRefs == {TableRef(<<"u">>, "r"), TableRef(<<"b", "t">>, "")}

ColText(table, name) == [kind |-> "col", table |-> table, name |-> name]

\* the select of a scalar subquery: (SELECT amount FROM u)
SubSelectText ==
  [items |-> <<[alias |-> "", expr |-> ColText("", "amount")]>>,
   from |-> <<TableRef(<<"u">>, "")>>, joins |-> <<>>]

ItemTexts ==
  { [alias |-> "v", expr |-> ColText("s", "id")],
    [alias |-> "",  expr |-> ColText("s", "id")],
    [alias |-> "",  expr |-> ColText("", "id")],
    [alias |-> "v", expr |-> ColText("r", "amount")],
    [alias |-> "v", expr |-> [kind |-> "null"]],
    [alias |-> "",  expr |-> [kind |-> "lit", text |-> "1"]],
    [alias |-> "v", expr |-> [kind |-> "add", left |-> ColText("s", "id"),
                                              right |-> ColText("r", "amount")]],
    [alias |-> "v", expr |-> [kind |-> "sub", select |-> SubSelectText]] }

FromClauses ==
  {[from |-> <<>>, joins |-> <<>>]} \cup
  {[from |-> <<f>>, joins |-> j] : f \in FromRefs, j \in SeqsUpTo(JoinRefs, MaxJoins)}

SelectTexts ==
  {[items |-> it, from |-> fc.from, joins |-> fc.joins] :
     it \in SeqsUpTo(ItemTexts, MaxExprs) \ {<<>>}, fc \in FromClauses}

\* the branches UNIONs are built from: one item, at most one table
BranchTexts ==
  {s \in SelectTexts :
     /\ Len(s.items) = 1
     /\ s.joins = <<>>
     /\ s.from \in {<<>>, <<TableRef(<<"t">>, "s")>>, <<TableRef(<<"u">>, "r")>>}
     /\ \/ s.items[1].expr.kind \in {"null", "sub"}
        \/ s.items[1].expr \in {ColText("s", "id"), ColText("", "id"), ColText("r", "amount")}
     /\ s.items[1].expr = ColText("s", "id") => s.items[1].alias = "v"}

UnionTexts == {b \in SeqsUpTo(BranchTexts, MaxBranches) : Len(b) >= 2}

\* the bodies given without CREATE VIEW: a branch, or a UNION of two
BareTexts == {b \in SeqsUpTo(BranchTexts, 2) : Len(b) >= 1}

\* stmt: "create" is CREATE VIEW w AS body, "select" the bare body, "drop" a
\* statement with no query in it, "malformed" a text the parser rejects
SqlTexts ==
  {[stmt |-> "malformed", body |-> <<>>], [stmt |-> "drop", body |-> <<>>]} \cup
  {[stmt |-> "create", body |-> b] : b \in {<<s>> : s \in SelectTexts} \cup UnionTexts} \cup
  {[stmt |-> "select", body |-> b] : b \in BareTexts}

(***************************************************************************)
(* sqlglot: the AST built by parse_one, and the tree walk behind find and  *)
(* find_all.                                                               *)
(***************************************************************************)
Identifier(name) == [kind |-> "Identifier", this |-> name]

Dot(this, expression) == [kind |-> "Dot", this |-> this, expression |-> expression]

RECURSIVE NestDots(_, _)
\* a further dotted part after the catalog is set: table = Dot(table, part)
NestDots(table, rest) ==
  IF rest = <<>> THEN table
  ELSE NestDots(Dot(table, Identifier(Head(rest))), Tail(rest))

\* Parser._parse_table_parts: the last three parts become catalog, db and
\* this; with more than three, this nests the remaining parts in Dots
parse_table_parts(ref) ==
  LET p == ref.parts
      n == Len(p)
  IN [kind |-> "Table",
      this |-> IF n <= 3 THEN Identifier(p[n])
               ELSE NestDots(Identifier(p[3]), SubSeq(p, 4, n)),
      db |-> IF n = 1 THEN NoneNode ELSE IF n = 2 THEN Identifier(p[1]) ELSE Identifier(p[2]),
      catalog |-> IF n >= 3 THEN Identifier(p[1]) ELSE NoneNode,
      alias |-> IF ref.alias = "" THEN NoneNode
                ELSE [kind |-> "TableAlias", this |-> Identifier(ref.alias)]]

parse_column(e) ==
  [kind |-> "Column", this |-> Identifier(e.name),
   table |-> IF e.table = "" THEN NoneNode ELSE Identifier(e.table)]

\* the select of a scalar subquery: its items are plain columns
parse_subselect(s) ==
  [kind |-> "Select",
   expressions |-> [i \in 1..Len(s.items) |-> parse_column(s.items[i].expr)],
   from |-> [i \in 1..Len(s.from) |->
               [kind |-> "From", this |-> parse_table_parts(s.from[i])]],
   joins |-> [i \in 1..Len(s.joins) |->
               [kind |-> "Join", this |-> parse_table_parts(s.joins[i])]]]

parse_expression(e) ==
  CASE e.kind = "col"  -> parse_column(e)
    [] e.kind = "lit"  -> [kind |-> "Literal", this |-> e.text]
    [] e.kind = "null" -> [kind |-> "Null"]
    [] e.kind = "add"  -> [kind |-> "Add", this |-> parse_column(e.left),
                                           expression |-> parse_column(e.right)]
    [] e.kind = "sub"  -> [kind |-> "Subquery", this |-> parse_subselect(e.select)]

parse_item(item) ==
  IF item.alias = "" THEN parse_expression(item.expr)
  ELSE [kind |-> "Alias", this |-> parse_expression(item.expr),
        alias |-> Identifier(item.alias)]

parse_select(s) ==
  [kind |-> "Select",
   expressions |-> [i \in 1..Len(s.items) |-> parse_item(s.items[i])],
   from |-> [i \in 1..Len(s.from) |->
               [kind |-> "From", this |-> parse_table_parts(s.from[i])]],
   joins |-> [i \in 1..Len(s.joins) |->
               [kind |-> "Join", this |-> parse_table_parts(s.joins[i])]]]

RECURSIVE parse_set_operations(_)
\* a UNION b UNION c is Union(Union(a, b), c)
parse_set_operations(body) ==
  IF Len(body) = 1 THEN parse_select(body[1])
  ELSE [kind |-> "Union", this |-> parse_set_operations(Front(body)),
        expression |-> parse_select(Last(body))]

ViewName == parse_table_parts(TableRef(<<"w">>, ""))

\* sqlglot.parse_one; the value for a text it rejects is never used: the
\* call raises ParseError (see ParseFails)
parse_one(text) ==
  CASE text.stmt = "create" ->
         [kind |-> "Create", this |-> ViewName,
          expression |-> parse_set_operations(text.body)]
    [] text.stmt = "select" -> parse_set_operations(text.body)
    [] text.stmt = "drop" -> [kind |-> "Drop", this |-> ViewName]
    [] OTHER -> NoneNode

ParseFails(text) == text.stmt = "malformed"

Present(nodes) == SelectSeq(nodes, LAMBDA n : n.kind # "None")

\* the child nodes of a node, in the order of its args
Children(n) ==
  CASE n.kind \in {"Create", "Drop", "From", "Join", "Subquery", "TableAlias"} ->
         Present(<<n.this>>) \o (IF n.kind = "Create" THEN <<n.expression>> ELSE <<>>)
    [] n.kind \in {"Union", "Add", "Dot"} -> <<n.this, n.expression>>
    [] n.kind = "Select" -> n.expressions \o n.from \o n.joins
    [] n.kind = "Table" -> Present(<<n.this, n.db, n.catalog, n.alias>>)
    [] n.kind = "Column" -> Present(<<n.this, n.table>>)
    [] n.kind = "Alias" -> <<n.this, n.alias>>
    [] OTHER -> <<>>

RECURSIVE bfs(_)
\* Expression.bfs: the nodes under the queued ones, level by level
bfs(queue) ==
  IF queue = <<>> THEN <<>>
  ELSE <<Head(queue)>> \o bfs(Tail(queue) \o Children(Head(queue)))

\* Expression.find_all(kind): the node itself included
find_all(n, kind) == SelectSeq(bfs(<<n>>), LAMBDA m : m.kind = kind)

\* Expression.find(kind): the first one, or None
find(n, kind) ==
  LET found == find_all(n, kind) IN IF found = <<>> THEN NoneNode ELSE Head(found)

\* Expression.name
RECURSIVE name(_)
name(n) ==
  CASE n.kind = "None" -> ""
    [] n.kind = "Identifier" -> n.this
    [] n.kind = "Dot" -> name(n.expression)
    [] n.kind = "Literal" -> n.this
    [] OTHER -> name(n.this)

RECURSIVE sql(_)
\* Expression.sql / str(): the tokens of the rendering
sql(n) ==
  CASE n.kind = "Identifier" -> <<n.this>>
    [] n.kind = "Dot" -> sql(n.this) \o sql(n.expression)
    [] n.kind = "Literal" -> <<n.this>>
    [] n.kind = "Null" -> <<"NULL">>
    [] n.kind = "Column" -> (IF n.table.kind = "None" THEN <<>> ELSE sql(n.table)) \o sql(n.this)
    [] n.kind = "Add" -> sql(n.this) \o <<"+">> \o sql(n.expression)
    [] n.kind = "Alias" -> sql(n.this) \o <<"AS">> \o sql(n.alias)
    [] n.kind = "Subquery" -> <<"(">> \o sql(n.this) \o <<")">>
    [] n.kind = "Select" ->
         <<"SELECT">> \o Flatten([i \in 1..Len(n.expressions) |-> sql(n.expressions[i])])
           \o Flatten([i \in 1..Len(n.from) |-> <<"FROM">> \o sql(n.from[i].this)])
           \o Flatten([i \in 1..Len(n.joins) |-> <<"JOIN">> \o sql(n.joins[i].this)])
    [] n.kind = "Table" ->
         (IF n.catalog.kind = "None" THEN <<>> ELSE sql(n.catalog))
           \o (IF n.db.kind = "None" THEN <<>> ELSE sql(n.db)) \o sql(n.this)
           \o (IF n.alias.kind = "None" THEN <<>> ELSE <<"AS">> \o sql(n.alias.this))
    [] OTHER -> <<>>

(***************************************************************************)
(* view_parser.py                                                          *)
(***************************************************************************)
UNKNOWN == <<"UNKNOWN">>

\* a missing value of a DataFrame cell (None / NaN), in a column of dotted texts
NaN == <<"NaN">>

RECURSIVE dot_parts(_, _)
\* the while loop over a Dot in db: the names on the way are put in front,
\* the innermost name is appended
dot_parts(parts, dot_expr) ==
  IF dot_expr.kind = "Dot"
  THEN dot_parts(<<<<name(dot_expr.this)>>>> \o parts, dot_expr.expression)
  ELSE Append(parts, <<name(dot_expr)>>)

get_full_table_name(table_expr) ==
  LET db_parts ==
        IF table_expr.db.kind = "Dot" THEN dot_parts(<<>>, table_expr.db)
        ELSE IF table_expr.db.kind # "None" THEN <<sql(table_expr.db)>>
        ELSE <<>>
      parts ==
        IF table_expr.this.kind # "None" THEN Append(db_parts, sql(table_expr.this))
        ELSE db_parts
  IN Flatten(parts)

\* d[key] = value on a dict in insertion order
dict_set(d, key, value) ==
  IF \E i \in 1..Len(d) : d[i][1] = key
  THEN [i \in 1..Len(d) |-> IF d[i][1] = key THEN <<key, value>> ELSE d[i]]
  ELSE Append(d, <<key, value>>)

\* d.get(key, default)
dict_get(d, key, default) ==
  IF \E i \in 1..Len(d) : d[i][1] = key
  THEN d[CHOOSE i \in 1..Len(d) : d[i][1] = key][2]
  ELSE default

\* the body of both loops: tables[alias or last segment] = full_name
register_table(tbls, table) ==
  LET full_name == get_full_table_name(table)
  IN IF table.alias.kind # "None"
     THEN dict_set(tbls, name(table.alias), full_name)
     ELSE dict_set(tbls, Last(full_name), full_name)

RECURSIVE register_tables(_, _)
register_tables(tbls, table_nodes) ==
  IF table_nodes = <<>> THEN tbls
  ELSE register_tables(register_table(tbls, Head(table_nodes)), Tail(table_nodes))

get_source_tables(select_stmt) ==
  LET from_clause == find(select_stmt, "From")
      from_tables ==
        IF from_clause.kind # "None"
        THEN register_tables(<<>>, find_all(from_clause, "Table"))
        ELSE <<>>
      joined == SelectSeq(find_all(select_stmt, "Join"), LAMBDA j : j.this.kind = "Table")
  IN register_tables(from_tables, [i \in 1..Len(joined) |-> joined[i].this])

\* process_select_expression without the skip, walking literals as it walks
\* columns: find_all(Column, Literal)
process_select_expression_literals(expr, tbls, dflt) ==
  LET view_col == IF expr.kind = "Alias" THEN <<name(expr.alias)>> ELSE sql(expr)
      expr_inner == IF expr.kind = "Alias" THEN expr.this ELSE expr
      cols == SelectSeq(bfs(<<expr_inner>>), LAMBDA m : m.kind \in {"Column", "Literal"})
  IN [i \in 1..Len(cols) |->
        LET table_ref == IF cols[i].kind = "Column" THEN name(cols[i].table) ELSE ""
        IN [view_column |-> view_col,
            source_column |-> name(cols[i]),
            source_table |-> IF table_ref # ""
                             THEN dict_get(tbls, table_ref, <<table_ref>>)
                             ELSE dflt]]

process_select_expression(expr, tbls, dflt) ==
  LET view_col == IF expr.kind = "Alias" THEN <<name(expr.alias)>> ELSE sql(expr)
      expr_inner == IF expr.kind = "Alias" THEN expr.this ELSE expr
      cols == find_all(expr_inner, "Column")
  IN IF expr_inner.kind \in {"Literal", "Null"} THEN <<>>
     ELSE [i \in 1..Len(cols) |->
            LET table_ref == name(cols[i].table)
            IN [view_column |-> view_col,
                source_column |-> name(cols[i]),
                source_table |-> IF table_ref # ""
                                 THEN dict_get(tbls, table_ref, <<table_ref>>)
                                 ELSE dflt]]

\* next(iter(tables.values())) if tables else "UNKNOWN"
first_table_or_unknown(tbls) == IF tbls # <<>> THEN tbls[1][2] ELSE UNKNOWN

\* the loop over select.expressions: the records of one SELECT
expressions_lineage(select_stmt, tbls, dflt) ==
  Flatten([i \in 1..Len(select_stmt.expressions) |->
             process_select_expression(select_stmt.expressions[i], tbls, dflt)])

\* the body of the loop over the SELECTs
select_lineage(select_stmt) ==
  LET tbls == get_source_tables(select_stmt)
  IN expressions_lineage(select_stmt, tbls, first_table_or_unknown(tbls))

\* selects_of with find in place of find_all under the Union
selects_of_first(create_stmt) ==
  LET union_stmt == find(create_stmt, "Union")
      single == find(create_stmt, "Select")
  IN IF union_stmt.kind # "None" THEN <<find(union_stmt, "Select")>>
     ELSE IF single.kind # "None" THEN <<single>>
     ELSE <<>>

\* the SELECTs the loop runs over: all those under the first Union, else
\* the first SELECT under the Create, if any
selects_of(create_stmt) ==
  LET union_stmt == find(create_stmt, "Union")
      single == find(create_stmt, "Select")
  IN IF union_stmt.kind # "None" THEN find_all(union_stmt, "Select")
     ELSE IF single.kind # "None" THEN <<single>>
     ELSE <<>>

(***************************************************************************)
(* pandas: the DataFrame operations of the clean-up.                       *)
(***************************************************************************)
\* the strings of the model in the order Python compares them
TokenOrder ==
  <<"(", ")", "+", "1", "AS", "FROM", "JOIN", "NULL", "NaN", "SELECT", "UNKNOWN",
    "a", "amount", "b", "c", "id", "r", "s", "t", "u", "v", "w">>

Rank(token) == CHOOSE i \in 1..Len(TokenOrder) : TokenOrder[i] = token

RECURSIVE TextLess(_, _)
\* x < y on token sequences, token by token, a prefix first ('.' sorts
\* before the characters of an identifier)
TextLess(x, y) ==
  IF y = <<>> THEN FALSE
  ELSE IF x = <<>> THEN TRUE
  ELSE IF Head(x) # Head(y) THEN Rank(Head(x)) < Rank(Head(y))
  ELSE TextLess(Tail(x), Tail(y))

\* the sort key of sort_values(['view_column', 'source_table', 'source_column'])
RowLess(x, y) ==
  IF x.view_column # y.view_column THEN TextLess(x.view_column, y.view_column)
  ELSE IF x.source_table # y.source_table THEN TextLess(x.source_table, y.source_table)
  ELSE x.source_column # y.source_column /\ Rank(x.source_column) < Rank(y.source_column)

\* df[df['source_column'].notna()]
notna_source_column(rows) == SelectSeq(rows, LAMBDA r : r.source_column # "NaN")

\* drop_duplicates left out
drop_duplicates_kept_all(rows) == rows

RECURSIVE drop_duplicates(_)
\* keep='first': a row equal to an earlier one is dropped
drop_duplicates(rows) ==
  IF rows = <<>> THEN <<>>
  ELSE LET kept == drop_duplicates(Front(rows))
       IN IF Last(rows) \in Range(kept) THEN kept ELSE Append(kept, Last(rows))

\* df['source_table'].mode()[0]: the most frequent value that is not
\* missing, the smallest one of several
mode(rows) ==
  LET vals == {rows[i].source_table : i \in 1..Len(rows)} \ {NaN}
      count(v) == Cardinality({i \in 1..Len(rows) : rows[i].source_table = v})
      top == {v \in vals : \A w \in vals : count(w) <= count(v)}
  IN CHOOSE v \in top : \A w \in top : w = v \/ TextLess(v, w)

\* df['source_table'].fillna(value): only the missing cells are replaced
fillna_source_table(rows, value) ==
  [i \in 1..Len(rows) |->
     IF rows[i].source_table = NaN THEN [rows[i] EXCEPT !.source_table = value]
     ELSE rows[i]]

RECURSIVE sort_values(_)
\* insertion sort: a row goes behind the rows that are not greater
sort_values(rows) ==
  IF rows = <<>> THEN <<>>
  ELSE LET sorted == sort_values(Front(rows))
           r == Last(rows)
           k == Cardinality({i \in 1..Len(sorted) : ~RowLess(r, sorted[i])})
       IN SubSeq(sorted, 1, k) \o <<r>> \o SubSeq(sorted, k + 1, Len(sorted))

\* lines 125-137: the DataFrame of the records, cleaned up when not empty
clean_up(records) ==
  IF records = <<>> THEN <<>>
  ELSE LET present == notna_source_column(records)
           unique == drop_duplicates(present)
           filled == fillna_source_table(unique, mode(unique))
       IN sort_values(filled)

\* extract_column_lineage as a function of the text: the DataFrame returned
extract_column_lineage(text) ==
  IF ParseFails(text) THEN <<>>
  ELSE LET create_stmt == find(parse_one(text), "Create")
       IN IF create_stmt.kind = "None" THEN <<>>
          ELSE LET sels == selects_of(create_stmt)
               IN clean_up(Flatten([i \in 1..Len(sels) |-> select_lineage(sels[i])]))

(***************************************************************************)
(* One call of extract_column_lineage, step by step.                       *)
(***************************************************************************)
Init ==
  /\ sql_text \in SqlTexts
  /\ pc = "start"
  /\ parsed = NoneNode
  /\ selects = <<>>
  /\ select = NoneNode
  /\ tables = <<>>
  /\ default_table = <<>>
  /\ all_lineage = <<>>
  /\ df = <<>>
  /\ stdout = <<>>

\* parse_one raises: the except clause prints and returns an empty DataFrame
ParseError ==
  /\ pc = "start"
  /\ ParseFails(sql_text)
  /\ stdout' = Append(stdout, "Error processing SQL")
  /\ df' = <<>>
  /\ pc' = "done"
  /\ UNCHANGED <<sql_text, parsed, selects, select, tables, default_table, all_lineage>>

\* no Create in the parsed statement: return an empty DataFrame
NoCreate ==
  /\ pc = "start"
  /\ ~ParseFails(sql_text)
  /\ LET tree == parse_one(sql_text)
     IN /\ find(tree, "Create").kind = "None"
        /\ parsed' = tree
  /\ df' = <<>>
  /\ pc' = "done"
  /\ UNCHANGED <<sql_text, selects, select, tables, default_table, all_lineage, stdout>>

\* a Create is found: the SELECTs to process are those of the Union or the
\* single SELECT
FindSelects ==
  /\ pc = "start"
  /\ ~ParseFails(sql_text)
  /\ LET tree == parse_one(sql_text)
         create_stmt == find(tree, "Create")
     IN /\ create_stmt.kind # "None"
        /\ parsed' = tree
        /\ selects' = selects_of(create_stmt)
  /\ all_lineage' = <<>>
  /\ pc' = "loop"
  /\ UNCHANGED <<sql_text, select, tables, default_table, df, stdout>>

\* one iteration over the SELECTs: its tables, its default table, and the
\* records of each of its expressions
ProcessSelect ==
  /\ pc = "loop"
  /\ selects # <<>>
  /\ select' = Head(selects)
  /\ selects' = Tail(selects)
  /\ LET tbls == get_source_tables(Head(selects))
         dflt == first_table_or_unknown(tbls)
     IN /\ tables' = tbls
        /\ default_table' = dflt
        /\ all_lineage' = all_lineage \o expressions_lineage(Head(selects), tbls, dflt)
  /\ UNCHANGED <<sql_text, pc, parsed, df, stdout>>

\* after the loop: build, clean up and return the DataFrame
CleanUp ==
  /\ pc = "loop"
  /\ selects = <<>>
  /\ df' = clean_up(all_lineage)
  /\ pc' = "done"
  /\ UNCHANGED <<sql_text, parsed, selects, select, tables, default_table, all_lineage, stdout>>

Next == ParseError \/ NoCreate \/ FindSelects \/ ProcessSelect \/ CleanUp

Spec == Init /\ [][Next]_vars

(***************************************************************************)
(* Properties.                                                             *)
(***************************************************************************)
Done == pc = "done"

\* a SELECT has been processed: tables and default_table are those of select
Processed == select.kind = "Select"

IsUnionView == sql_text.stmt = "create" /\ Len(sql_text.body) >= 2

\* the DataFrame returned for a view whose body is branch i alone
Standalone(i) == extract_column_lineage([stmt |-> "create", body |-> <<sql_text.body[i]>>])

RECURSIVE SumOfStandalone(_)
SumOfStandalone(k) == IF k = 0 THEN 0 ELSE Len(Standalone(k)) + SumOfStandalone(k - 1)

NoNestedSelect ==
  \A i \in 1..Len(sql_text.body) : \A j \in 1..Len(sql_text.body[i].items) :
    sql_text.body[i].items[j].expr.kind # "sub"

\* C1 as stated: the number of records returned for a UNION view is the sum
\* of the numbers returned for each of its branches alone.
UnionCompleteness ==
  (Done /\ IsUnionView) => Len(df) = SumOfStandalone(Len(sql_text.body))

\* C1, amended: every record returned for a branch alone is returned for the
\* UNION view; when no branch nests a subquery the records returned are
\* exactly the distinct records of the branches, and as many as the sum
\* when no two branches yield the same record.
UnionCompletenessOfDistinct ==
  (Done /\ IsUnionView) =>
    LET k == Len(sql_text.body)
        rows(i) == Range(Standalone(i))
    IN /\ \A i \in 1..k : rows(i) \subseteq Range(df)
       /\ NoNestedSelect => Range(df) = UNION {rows(i) : i \in 1..k}
       /\ NoNestedSelect => Len(df) <= SumOfStandalone(k)
       /\ (NoNestedSelect /\ \A i, j \in 1..k : i # j => rows(i) \cap rows(j) = {})
            => Len(df) = SumOfStandalone(k)

\* two branches of a UNION view yield the same record, returned once
UnionMergedDuplicate ==
  /\ Done /\ IsUnionView /\ NoNestedSelect
  /\ Len(df) >= 1
  /\ Len(df) < SumOfStandalone(Len(sql_text.body))

\* C2: when some record has a resolved source_table, no record of the
\* DataFrame returned has the source_table "UNKNOWN": those records have been
\* rewritten to the most frequent resolved source_table.
FallbackFill ==
  Done =>
    LET resolved == SelectSeq(all_lineage, LAMBDA r : r.source_table # UNKNOWN)
    IN resolved # <<>> =>
         /\ \A i \in 1..Len(df) : df[i].source_table # UNKNOWN
         /\ \A i \in 1..Len(all_lineage) :
              all_lineage[i].source_table = UNKNOWN =>
                [all_lineage[i] EXCEPT !.source_table = mode(resolved)] \in Range(df)

\* C3: a bare SELECT or UNION body gives the DataFrame its CREATE VIEW gives
\* (for SELECT id FROM t the one record {id, id, t}).
BareSelect ==
  (Done /\ sql_text.stmt = "select") =>
    df = extract_column_lineage([sql_text EXCEPT !.stmt = "create"])

\* what is returned when no view body is located
NoLineageFound == extract_column_lineage([stmt |-> "drop", body |-> <<>>])

\* C4: what the caller receives for a text that fails to parse (the
\* DataFrame returned; the message goes to stdout, not to the caller) differs
\* from what it receives when no view body is located.
ParseFailureDistinguishable ==
  (Done /\ ParseFails(sql_text)) => df # NoLineageFound

\* C5: no two records of the DataFrame returned are the same
\* (view_column, source_column, source_table) triple.
Deduplication ==
  Done => \A i, j \in 1..Len(df) : i # j => df[i] # df[j]

\* the expressions yielded a record more than once
DuplicateDropped == Done /\ Len(df) >= 1 /\ Len(df) < Len(all_lineage)

\* the Table nodes of the FROM and JOIN clauses of a SELECT
branch_tables(select_stmt) ==
  [i \in 1..Len(select_stmt.from) |-> select_stmt.from[i].this]
    \o [i \in 1..Len(select_stmt.joins) |-> select_stmt.joins[i].this]

\* the dotted parts of a table reference as written
written_parts(table) ==
  (IF table.catalog.kind = "None" THEN <<>> ELSE sql(table.catalog))
    \o (IF table.db.kind = "None" THEN <<>> ELSE sql(table.db)) \o sql(table.this)

\* C6: every table of the FROM and JOIN clauses of the processed SELECT has
\* its key in tables (its alias, else its last segment), and the value of
\* the key is the fully qualified name of that table.
AliasResolutionTotality ==
  Processed =>
    \A table \in Range(branch_tables(select)) :
      LET key == IF table.alias.kind # "None" THEN name(table.alias)
                 ELSE Last(written_parts(table))
      IN dict_get(tables, key, <<>>) = written_parts(table)

\* C7: the name of a table of the processed SELECT is all its parts as
\* written, in order.
FullyQualifiedName ==
  Processed =>
    \A table \in Range(branch_tables(select)) :
      get_full_table_name(table) = written_parts(table)

\* the select list of the only SELECT of a view is made of qualified columns
\* whose qualifiers are aliases of its tables
QualifiedOverAliased ==
  /\ sql_text.stmt = "create" /\ Len(sql_text.body) = 1
  /\ \A j \in 1..Len(sql_text.body[1].items) :
       /\ sql_text.body[1].items[j].expr.kind = "col"
       /\ \E ref \in Range(sql_text.body[1].from \o sql_text.body[1].joins) :
            ref.alias # "" /\ ref.alias = sql_text.body[1].items[j].expr.table

\* C8: for such a view the records returned are one per select item, named by
\* the alias of the item, else by the bare name of its column.
ViewColumnNaming ==
  (Done /\ QualifiedOverAliased) =>
    LET items == sql_text.body[1].items
        refs == sql_text.body[1].from \o sql_text.body[1].joins
        record(j) ==
          [view_column |-> IF items[j].alias # "" THEN <<items[j].alias>>
                           ELSE <<items[j].expr.name>>,
           source_column |-> items[j].expr.name,
           source_table |-> (CHOOSE ref \in Range(refs) :
                               ref.alias = items[j].expr.table).parts]
    IN /\ Len(df) = Len(items)
       /\ \A j \in 1..Len(items) : record(j) \in Range(df)

\* the text without the select items that are a literal or NULL
without_literals(text) ==
  [text EXCEPT !.body =
     [i \in 1..Len(text.body) |->
        [text.body[i] EXCEPT !.items =
           SelectSeq(text.body[i].items, LAMBDA it : it.expr.kind \notin {"lit", "null"})]]]

DefaultTablePerBranch ==
  Processed =>
    /\ select.from # <<>> => default_table = written_parts(select.from[1].this)
    /\ default_table = UNKNOWN <=> select.from = <<>>

====
